---- MODULE Spec2Model ----
(***************************************************************************)
(* SimpleBot (src/simplebot/__init__.py): the plugin lifecycle of start()  *)
(* and the two dispatch pipelines on_message / on_command.                 *)
(*                                                                         *)
(* Texts are sequences of one-character strings, so that command matching  *)
(* (get_args) is computed on the characters.  An optional value (Python    *)
(* None or a value) is a sequence of length 0 or 1.                        *)
(*                                                                         *)
(* Callbacks are plugin code: what a call returns, or whether it raises,   *)
(* is chosen nondeterministically at every invocation.                     *)
(***************************************************************************)
EXTENDS Integers, Sequences, FiniteSets, TLC

\* ------------------------------------------------------------------ bounds
NumPlugins == 2

Plugins == 1..NumPlugins
Items == {1, 2}

\* -------------------------------------------------------- optional values
None == <<>>
Some(x) == <<x>>
Val(o) == o[1]

\* ------------------------------------------------------------------ texts
SP == " "
TxtA == <<"/", "a">>
TxtABX == <<"/", "a", "b", SP, "x">>
TxtZA == <<"/", "z", SP, "/", "a">>
TxtHi == <<"h", "i">>
Texts == {TxtA, TxtABX, TxtZA, TxtHi}
ArgTexts == {TxtABX}

\* The alternate-output marker looked for by on_command.
ZMarker == <<"/", "z">>

RECURSIVE LStrip(_)
LStrip(s) == IF s # <<>> /\ Head(s) = SP THEN LStrip(Tail(s)) ELSE s

RECURSIVE RStrip(_)
RStrip(s) ==
    IF s # <<>> /\ s[Len(s)] = SP THEN RStrip(SubSeq(s, 1, Len(s) - 1)) ELSE s

Strip(s) == RStrip(LStrip(s))

IsPrefix(p, s) == Len(p) <= Len(s) /\ SubSeq(s, 1, Len(p)) = p

\* DeltaBot.get_args(cmd, text): the argument text when cmd is a prefix of
\* text that ends at whitespace or at the end of the text, None otherwise.
get_args(cmd, text) ==
    IF IsPrefix(cmd, text) /\ (Len(text) = Len(cmd) \/ text[Len(cmd) + 1] = SP)
    THEN Some(Strip(SubSeq(text, Len(cmd) + 1, Len(text))))
    ELSE None

\* ---------------------------------------------------------------- plugins
\* Plugin p owns one callback per registry category, identified by p, and
\* one command: "/a" for plugin 1, "/ab" for plugin 2, "/abb" for plugin 3...
RECURSIVE Bs(_)
Bs(n) == IF n = 0 THEN <<>> ELSE <<"b">> \o Bs(n - 1)

CmdOf(p) == <<"/", "a">> \o Bs(p - 1)
CmdNames == {CmdOf(p) : p \in Plugins}

\* What a plugin's activate hook registers: its detected-listener (in _mdl
\* and _cdl), its processed-listener (in _mpl and _cpl), its command and
\* filter ("resolver"), in any combination.
Shapes == SUBSET {"detected", "processed", "resolver"}

VARIABLES
    hpc,        \* where start() is: "loaded", "activating", "running",
                \* "deactivating", "stopped", "crashed"
    k,          \* index into self.plugins of the activate/deactivate loop
    mdl, mpl, cdl, cpl,   \* self._mdl, self._mpl, self._cdl, self._cpl
    commands,   \* self.commands: the command names, in insertion order
    filters,    \* self.filters
    registered, \* per plugin: the shape its activate hook registered
    nAct,       \* per plugin: calls of its activate hook
    nDeact,     \* per plugin: calls of its deactivate hook
    deactRaised,\* plugins whose deactivate hook raised
    escaped,    \* an exception left start()
    actRaised,  \* plugins whose activate hook raised
    hlog,       \* what start() has done so far, in order: <<"activate", p>>,
                \* <<"open", 0>>, <<"close", 0>>, <<"deactivate", p>>
    lastOp,     \* the last direct call of an add_on_* / remove_on_* method
    disp        \* per item slot: the dispatch in flight

vars == <<hpc, k, mdl, mpl, cdl, cpl, commands, filters, registered,
          nAct, nDeact, deactRaised, escaped, actRaised, hlog, lastOp, disp>>

registry == <<mdl, mpl, cdl, cpl, commands, filters>>
lifecycle == <<hpc, k, registered, nAct, nDeact, deactRaised, escaped,
               actRaised, hlog, lastOp>>

\* ------------------------------------------------------- dispatch records
Zero(S) == [x \in S |-> 0]

Idle ==
    [pc |-> "idle", kind |-> "none", meta |-> FALSE, text |-> None,
     user_agent |-> "none", visited |-> {}, idx |-> 0, processed |-> None,
     deleted |-> 0, seen |-> 0,
     nDet |-> Zero(Plugins), nFil |-> Zero(Plugins),
     nHan |-> Zero(CmdNames), nPro |-> Zero(Plugins),
     rejected |-> FALSE, detRaised |-> {}, filRaised |-> {}, filTrue |-> {},
     hanRaised |-> {}, proRaised |-> {}, proArgs |-> {},
     text0 |-> None, argIn |-> None, hanArgs |-> {}, lastRet |-> None,
     log |-> <<>>]

Bump(f, x) == [f EXCEPT ![x] = @ + 1]

\* No add_on_* / remove_on_* method has been called directly yet.
NoOp == [op |-> "none", cat |-> "none", listener |-> 0,
         before |-> <<{}, {}, {}, {}>>, raised |-> FALSE]

\* ------------------------------------------------------------------- Init
Init ==
    /\ hpc = "loaded"
    /\ k = 1
    /\ mdl = {} /\ mpl = {} /\ cdl = {} /\ cpl = {}
    /\ commands = <<>>
    /\ filters = <<>>
    /\ registered = [p \in Plugins |-> {}]
    /\ nAct = Zero(Plugins)
    /\ nDeact = Zero(Plugins)
    /\ deactRaised = {}
    /\ escaped = FALSE
    /\ actRaised = {}
    /\ hlog = <<>>
    /\ lastOp = NoOp
    /\ disp = [i \in Items |-> Idle]

\* --------------------------------------------------------------- registry
add_on_msg_detected_listener(S, listener) == S \cup {listener}
add_on_msg_processed_listener(S, listener) == S \cup {listener}
remove_on_msg_detected_listener(S, listener) == S \ {listener}
remove_on_msg_processed_listener(S, listener) == S \ {listener}
add_on_cmd_detected_listener(S, listener) == S \cup {listener}
add_on_cmd_processed_listener(S, listener) == S \cup {listener}
remove_on_cmd_detected_listener(S, listener) == S \ {listener}
remove_on_cmd_processed_listener(S, listener) == S \ {listener}

InSeq(x, s) == \E n \in 1..Len(s) : s[n] = x

\* DeltaBot.add_commands / add_filters: an absent entry goes to the end, a
\* present one keeps its place.
add_commands(cmds, name) == IF InSeq(name, cmds) THEN cmds ELSE Append(cmds, name)
add_filters(fs, f) == IF InSeq(f, fs) THEN fs ELSE Append(fs, f)

\* DeltaBot.remove_commands / remove_filters: the entry is taken out, the
\* order of the others is kept; an absent entry changes nothing.
remove_commands(cmds, name) == SelectSeq(cmds, LAMBDA x : x # name)
remove_filters(fs, f) == SelectSeq(fs, LAMBDA x : x # f)

\* -------------------------------------------------------------- lifecycle
\* start(), line 65: the call enters activate_plugins.
start ==
    /\ hpc = "loaded"
    /\ hpc' = "activating"
    /\ k' = 1
    /\ UNCHANGED <<registry, registered, nAct, nDeact, deactRaised, escaped,
                   actRaised, hlog, lastOp, disp>>

\* Mutant: plugin.activate(self) inside try/except, the loop goes on.
AfterActivate_Caught(raises) ==
    [hpc |-> "activating", k |-> k + 1, escaped |-> escaped]

\* Mutant: activate_plugins inside the try of start(), the finally clause
\* runs deactivate_plugins on the exception.
AfterActivate_InTry(raises) ==
    IF raises
    THEN [hpc |-> "deactivating", k |-> 1, escaped |-> TRUE]
    ELSE [hpc |-> "activating", k |-> k + 1, escaped |-> escaped]

\* Lines 65 and 261-262: no try around plugin.activate(self) nor around
\* activate_plugins(): what the hook raises leaves the loop and start().
AfterActivate(raises) ==
    IF raises
    THEN [hpc |-> "crashed", k |-> k, escaped |-> TRUE]
    ELSE [hpc |-> "activating", k |-> k + 1, escaped |-> escaped]

\* One iteration of activate_plugins: plugin.activate(self).  The hook (the
\* plugin's override of Plugin.activate) registers what the plugin brings,
\* then returns or raises; nothing catches the exception.
activate_plugins ==
    /\ hpc = "activating"
    /\ k <= NumPlugins
    /\ \E s \in Shapes, raises \in BOOLEAN :
        /\ registered' = [registered EXCEPT ![k] = s]
        /\ mdl' = IF "detected" \in s
                  THEN add_on_msg_detected_listener(mdl, k) ELSE mdl
        /\ cdl' = IF "detected" \in s
                  THEN add_on_cmd_detected_listener(cdl, k) ELSE cdl
        /\ mpl' = IF "processed" \in s
                  THEN add_on_msg_processed_listener(mpl, k) ELSE mpl
        /\ cpl' = IF "processed" \in s
                  THEN add_on_cmd_processed_listener(cpl, k) ELSE cpl
        /\ commands' = IF "resolver" \in s
                       THEN add_commands(commands, CmdOf(k)) ELSE commands
        /\ filters' = IF "resolver" \in s
                      THEN add_filters(filters, k) ELSE filters
        /\ nAct' = Bump(nAct, k)
        /\ actRaised' = IF raises THEN actRaised \cup {k} ELSE actRaised
        /\ hpc' = AfterActivate(raises).hpc
        /\ k' = AfterActivate(raises).k
        /\ escaped' = AfterActivate(raises).escaped
    /\ hlog' = Append(hlog, <<"activate", k>>)
    /\ UNCHANGED <<nDeact, deactRaised, lastOp, disp>>

\* start(), lines 66-67: every plugin is activated, super().start() opens
\* the inbound pipeline.
open_pipeline ==
    /\ hpc = "activating"
    /\ k > NumPlugins
    /\ hpc' = "running"
    /\ hlog' = Append(hlog, <<"open", 0>>)
    /\ UNCHANGED <<k, registry, registered, nAct, nDeact, deactRaised, escaped,
                   actRaised, lastOp, disp>>

\* Mutant: no try/finally, an exception of super().start() leaves start()
\* at once.
HpcAfterPipeline_NoFinally(exc) == IF exc THEN "stopped" ELSE "deactivating"

\* Lines 66-69: deactivate_plugins() is in the finally clause.
HpcAfterPipeline(exc) == "deactivating"

\* start(), lines 67-69: super().start() returns or raises; the finally
\* clause enters deactivate_plugins, the exception is re-raised after it.
close_pipeline ==
    /\ hpc = "running"
    /\ \A i \in Items : disp[i].pc = "idle"
    /\ \E exc \in BOOLEAN :
        /\ escaped' = exc
        /\ hpc' = HpcAfterPipeline(exc)
    /\ k' = 1
    /\ hlog' = Append(hlog, <<"close", 0>>)
    /\ UNCHANGED <<registry, registered, nAct, nDeact, deactRaised, actRaised,
                   lastOp, disp>>

\* Plugin.deactivate: cls.bot.remove_commands(cls.commands) and
\* cls.bot.remove_filters(cls.filters).  cls.commands and cls.filters hold
\* the plugin's command and filter when it has them.
Plugin_deactivate_commands(cmds, p) ==
    IF "resolver" \in registered[p] THEN remove_commands(cmds, CmdOf(p)) ELSE cmds

Plugin_deactivate_filters(fs, p) ==
    IF "resolver" \in registered[p] THEN remove_filters(fs, p) ELSE fs

\* Mutant: no try/except, what the hook raises leaves deactivate_plugins.
HpcAfterDeactivate_Uncaught(out) == IF out = "ok" THEN "deactivating" ELSE "crashed"

\* Lines 266-269: the try/except around plugin.deactivate() catches what
\* the hook raises, the loop goes on.
HpcAfterDeactivate(out) == "deactivating"

\* Mutant: the plugins are taken in reverse order.
PluginToDeactivate_Reversed(n) == NumPlugins + 1 - n

\* Line 265: for plugin in self.plugins, the n-th iteration takes the n-th
\* loaded plugin.
PluginToDeactivate(n) == n

\* One iteration of deactivate_plugins: plugin.deactivate() inside
\* try/except.  The hook is Plugin.deactivate; an override may first take
\* the plugin's listeners out (cleans).  It raises before touching the
\* registry ("raise_early", e.g. cls.bot was never set), after its work
\* ("raise_late"), or returns ("ok").
deactivate_plugins ==
    /\ hpc = "deactivating"
    /\ k <= NumPlugins
    /\ LET p == PluginToDeactivate(k) IN
        /\ \E out \in {"ok", "raise_early", "raise_late"}, cleans \in BOOLEAN :
            /\ IF out = "raise_early"
               THEN UNCHANGED registry
               ELSE /\ commands' = Plugin_deactivate_commands(commands, p)
                    /\ filters' = Plugin_deactivate_filters(filters, p)
                    /\ IF cleans
                       THEN /\ mdl' = remove_on_msg_detected_listener(mdl, p)
                            /\ mpl' = remove_on_msg_processed_listener(mpl, p)
                            /\ cdl' = remove_on_cmd_detected_listener(cdl, p)
                            /\ cpl' = remove_on_cmd_processed_listener(cpl, p)
                       ELSE UNCHANGED <<mdl, mpl, cdl, cpl>>
            /\ deactRaised' = IF out = "ok" THEN deactRaised ELSE deactRaised \cup {p}
            /\ hpc' = HpcAfterDeactivate(out)
        /\ nDeact' = Bump(nDeact, p)
        /\ hlog' = Append(hlog, <<"deactivate", p>>)
    /\ k' = k + 1
    /\ UNCHANGED <<registered, nAct, escaped, actRaised, lastOp, disp>>

\* start(), after line 69: deactivate_plugins is through, start() is left.
start_return ==
    /\ hpc = "deactivating"
    /\ k > NumPlugins
    /\ hpc' = "stopped"
    /\ UNCHANGED <<k, registry, registered, nAct, nDeact, deactRaised, escaped,
                   actRaised, hlog, lastOp, disp>>

\* --------------------------------------------------------------- dispatch
\* The host hands items to on_message / on_command while the pipeline is
\* open, one item at a time: its event loop runs one handler to completion
\* before the next, so the running handler always occupies the first slot.
CanReceive(i) ==
    /\ hpc = "running"
    /\ i = 1
    /\ \A j \in Items : disp[j].pc = "idle"

Set(i, d) == disp' = [disp EXCEPT ![i] = d]

\* What a detected-listener call does: it returns a replacement text or
\* None, or it raises.
Raise == <<"raise">>
Returns(v) == <<"return", v>>
DetectedOutcomes == {Returns(Some(t)) : t \in Texts} \cup {Returns(None), Raise}

\* Mutant: the intake guard never fires.
ClassicEmail_Never(meta) == FALSE

\* Lines 162 and 204: msg.get_mime_headers()['chat-version'] is None.
ClassicEmail(meta) == ~meta

\* self.account.delete_messages((msg,)) followed by return.
DeleteItem(d) == [d EXCEPT !.deleted = @ + 1, !.pc = "done"]

\* Mutant: the handler ends without marking the item seen.
MarkSeen_Skipped(d) == [d EXCEPT !.pc = "done"]

\* self.account.mark_seen_messages([msg]), the handler's last statement.
MarkSeen(d) == [d EXCEPT !.seen = @ + 1, !.pc = "done"]

\* on_message(msg, text), lines 158-168, up to the first loop: the intake
\* guard and the default of text.
NewMessage(meta, msgtext, text) ==
    IF ClassicEmail(meta)
    THEN DeleteItem([Idle EXCEPT !.kind = "msg", !.meta = meta])
    ELSE [Idle EXCEPT !.kind = "msg", !.meta = meta,
                      !.text = IF text = None THEN Some(msgtext) ELSE text,
                      !.pc = "detect"]

\* on_message, lines 158-168.
on_message_intake(i) ==
    /\ CanReceive(i)
    /\ \E meta \in BOOLEAN, msgtext \in Texts,
          text \in {None} \cup {Some(t) : t \in ArgTexts} :
        Set(i, NewMessage(meta, msgtext, text))
    /\ UNCHANGED <<registry, lifecycle>>

\* The alternate-output marker, on_command lines 211-216: the user agent
\* and the text the pipeline goes on with.
OriginTag(text) == IF get_args(ZMarker, text) = None THEN "unknow" ELSE "zhv"

\* Mutant: the marker is left in the text the pipeline goes on with.
RealCmd_Unstripped(text) == text

RealCmd(text) == IF get_args(ZMarker, text) = None THEN text ELSE Val(get_args(ZMarker, text))

\* on_command(msg, text), lines 200-216, up to the first loop: the intake
\* guard, the default of text and the marker inspection.
NewCommand(meta, msgtext, text) ==
    LET t0 == IF text = None THEN msgtext ELSE Val(text) IN
    IF ClassicEmail(meta)
    THEN DeleteItem([Idle EXCEPT !.kind = "cmd", !.meta = meta])
    ELSE [Idle EXCEPT !.kind = "cmd", !.meta = meta,
                      !.user_agent = OriginTag(t0),
                      !.text = Some(RealCmd(t0)),
                      !.pc = "detect"]

\* on_command, lines 200-216.
on_command_intake(i) ==
    /\ CanReceive(i)
    /\ \E meta \in BOOLEAN, msgtext \in Texts,
          text \in {None} \cup {Some(t) : t \in ArgTexts} :
        Set(i, NewCommand(meta, msgtext, text))
    /\ UNCHANGED <<registry, lifecycle>>

\* Mutant: the callback is handed the text the handler started with.
PassedText_Raw(d) == d.text0

\* Lines 172, 183, 229: listener(msg, text), f(msg, text) and
\* get_args(cmd, text) are given the local variable text.
PassedText(d) == d.text

\* Mutant: the return after a None result is missing, the loop goes on
\* with the text it had.
DetectedCall_NoReturn(d, l, out) ==
    LET called == [d EXCEPT !.nDet = Bump(@, l), !.visited = @ \cup {l}] IN
    IF out = Raise
    THEN [called EXCEPT !.detRaised = @ \cup {l}]
    ELSE IF out[2] = None
         THEN [called EXCEPT !.rejected = TRUE, !.deleted = @ + 1]
         ELSE [called EXCEPT !.text = out[2], !.lastRet = out[2]]

\* Mutant: no try/except, an exception of the listener ends the handler.
DetectedCall_Uncaught(d, l, out) ==
    LET called == [d EXCEPT !.nDet = Bump(@, l), !.visited = @ \cup {l}] IN
    IF out = Raise
    THEN [called EXCEPT !.detRaised = @ \cup {l}, !.pc = "done"]
    ELSE IF out[2] = None
         THEN DeleteItem([called EXCEPT !.text = None, !.rejected = TRUE])
         ELSE [called EXCEPT !.text = out[2], !.lastRet = out[2]]

\* One iteration of a detected-listener loop (lines 170-178, 218-226) on
\* dispatch d: listener l is called and does out.
DetectedCall(d, l, out) ==
    LET called == [d EXCEPT !.nDet = Bump(@, l), !.visited = @ \cup {l}] IN
    IF out = Raise
    THEN [called EXCEPT !.detRaised = @ \cup {l}]
    ELSE IF out[2] = None
         THEN DeleteItem([called EXCEPT !.text = None, !.rejected = TRUE])
         ELSE [called EXCEPT !.text = out[2], !.lastRet = out[2]]

\* Mutant: a loop over listeners may be left before every member has been
\* called.
LoopDone_Early(S, d) == TRUE

\* A for loop over the listener set S (lines 170, 192, 218, 244) is through
\* in dispatch d: every member has been visited.
LoopDone(S, d) == S \subseteq d.visited

\* on_message, lines 170-178: for listener in self._mdl.
on_message_detected(i) ==
    /\ disp[i].pc = "detect" /\ disp[i].kind = "msg"
    /\ \E l \in mdl \ disp[i].visited, out \in DetectedOutcomes :
        Set(i, DetectedCall(disp[i], l, out))
    /\ UNCHANGED <<registry, lifecycle>>

\* on_command, lines 218-226: for listener in self._cdl.
on_command_detected(i) ==
    /\ disp[i].pc = "detect" /\ disp[i].kind = "cmd"
    /\ \E l \in cdl \ disp[i].visited, out \in DetectedOutcomes :
        Set(i, DetectedCall(disp[i], l, out))
    /\ UNCHANGED <<registry, lifecycle>>

\* on_message, line 180: the listener loop is through, processed = False.
on_message_resolve(i) ==
    /\ disp[i].pc = "detect" /\ disp[i].kind = "msg"
    /\ LoopDone(mdl, disp[i])
    /\ Set(i, [disp[i] EXCEPT !.pc = "resolve", !.processed = Some(FALSE),
                              !.idx = 1, !.visited = {}])
    /\ UNCHANGED <<registry, lifecycle>>

\* Mutant: the loop is left at the first filter that returns TRUE.
FilterCall_FirstMatch(d, f, out) ==
    LET called == [d EXCEPT !.nFil = Bump(@, f), !.idx = @ + 1] IN
    IF out = Raise
    THEN [called EXCEPT !.filRaised = @ \cup {f}]
    ELSE IF out[2]
         THEN [called EXCEPT !.processed = Some(TRUE), !.filTrue = @ \cup {f},
                             !.idx = Len(filters) + 1]
         ELSE called

\* One iteration of the filter loop, lines 181-187: filter f is called and
\* returns TRUE or FALSE, or raises.
FilterCall(d, f, out) ==
    LET called == [d EXCEPT !.nFil = Bump(@, f), !.idx = @ + 1] IN
    IF out = Raise
    THEN [called EXCEPT !.filRaised = @ \cup {f}]
    ELSE IF out[2]
         THEN [called EXCEPT !.processed = Some(TRUE), !.filTrue = @ \cup {f}]
         ELSE called

on_message_filter(i) ==
    /\ disp[i].pc = "resolve" /\ disp[i].kind = "msg"
    /\ disp[i].idx <= Len(filters)
    /\ \E out \in {Returns(TRUE), Returns(FALSE), Raise} :
        Set(i, FilterCall(disp[i], filters[disp[i].idx], out))
    /\ UNCHANGED <<registry, lifecycle>>

\* on_command, line 218 exhausted: the scan of self.commands starts.
on_command_resolve(i) ==
    /\ disp[i].pc = "detect" /\ disp[i].kind = "cmd"
    /\ LoopDone(cdl, disp[i])
    /\ Set(i, [disp[i] EXCEPT !.pc = "resolve", !.idx = 1, !.visited = {}])
    /\ UNCHANGED <<registry, lifecycle>>

\* Mutant: every command is taken to match.
HandlerMatches_Any(cmd, text) == TRUE

\* Mutant: a name matches whenever the text starts with it, also inside a
\* longer token.
HandlerMatches_Prefix(cmd, text) == IsPrefix(cmd, text)

\* Line 229-230: does command cmd match the text?
HandlerMatches(cmd, text) == get_args(cmd, text) # None

\* One iteration of the command loop, lines 228-237, on a command that
\* matches: the handler is called; when it returns, processed = True and the
\* loop is left (break); when it raises, the except clause logs and the
\* loop goes on with the next command.
HandlerCall(d, cmd, raises) ==
    LET called == [d EXCEPT !.nHan = Bump(@, cmd),
                            !.hanArgs = @ \cup {get_args(cmd, Val(PassedText(d)))}] IN
    IF raises
    THEN [called EXCEPT !.hanRaised = @ \cup {cmd}, !.idx = @ + 1]
    ELSE [called EXCEPT !.processed = Some(TRUE), !.pc = "notify",
                        !.visited = {}]

on_command_handler(i) ==
    /\ disp[i].pc = "resolve" /\ disp[i].kind = "cmd"
    /\ disp[i].idx <= Len(commands)
    /\ LET cmd == commands[disp[i].idx] IN
        IF HandlerMatches(cmd, Val(PassedText(disp[i])))
        THEN \E raises \in BOOLEAN : Set(i, HandlerCall(disp[i], cmd, raises))
        ELSE Set(i, [disp[i] EXCEPT !.idx = @ + 1])
    /\ UNCHANGED <<registry, lifecycle>>

\* Lines 238-239: the for loop ended without break, processed = False.
on_command_else(i) ==
    /\ disp[i].pc = "resolve" /\ disp[i].kind = "cmd"
    /\ disp[i].idx > Len(commands)
    /\ Set(i, [disp[i] EXCEPT !.processed = Some(FALSE), !.pc = "notify",
                              !.visited = {}])
    /\ UNCHANGED <<registry, lifecycle>>

\* Lines 188-190: the filter loop is through.
on_message_notify(i) ==
    /\ disp[i].pc = "resolve" /\ disp[i].kind = "msg"
    /\ disp[i].idx > Len(filters)
    /\ Set(i, [disp[i] EXCEPT !.pc = "notify", !.visited = {}])
    /\ UNCHANGED <<registry, lifecycle>>

\* Mutant: no try/except, an exception of a processed-listener ends the
\* loop.
ProcessedCall_Uncaught(d, l, raises) ==
    [d EXCEPT !.nPro = Bump(@, l),
              !.visited = IF raises THEN Plugins ELSE @ \cup {l},
              !.proArgs = @ \cup {Val(d.processed)},
              !.proRaised = IF raises THEN @ \cup {l} ELSE @]

\* One iteration of a processed-listener loop (lines 192-196, 244-248):
\* listener l is called with processed, and returns or raises.
ProcessedCall(d, l, raises) ==
    [d EXCEPT !.nPro = Bump(@, l), !.visited = @ \cup {l},
              !.proArgs = @ \cup {Val(d.processed)},
              !.proRaised = IF raises THEN @ \cup {l} ELSE @]

on_message_processed(i) ==
    /\ disp[i].pc = "notify" /\ disp[i].kind = "msg"
    /\ \E l \in mpl \ disp[i].visited, raises \in BOOLEAN :
        Set(i, ProcessedCall(disp[i], l, raises))
    /\ UNCHANGED <<registry, lifecycle>>

on_command_processed(i) ==
    /\ disp[i].pc = "notify" /\ disp[i].kind = "cmd"
    /\ \E l \in cpl \ disp[i].visited, raises \in BOOLEAN :
        Set(i, ProcessedCall(disp[i], l, raises))
    /\ UNCHANGED <<registry, lifecycle>>

\* Line 198: self.account.mark_seen_messages([msg]).
on_message_mark_seen(i) ==
    /\ disp[i].pc = "notify" /\ disp[i].kind = "msg"
    /\ LoopDone(mpl, disp[i])
    /\ Set(i, MarkSeen(disp[i]))
    /\ UNCHANGED <<registry, lifecycle>>

\* Line 250.
on_command_mark_seen(i) ==
    /\ disp[i].pc = "notify" /\ disp[i].kind = "cmd"
    /\ LoopDone(cpl, disp[i])
    /\ Set(i, MarkSeen(disp[i]))
    /\ UNCHANGED <<registry, lifecycle>>

\* The handler has returned; the slot takes the next item.
Return(i) ==
    /\ disp[i].pc = "done"
    /\ Set(i, Idle)
    /\ UNCHANGED <<registry, lifecycle>>

\* ------------------------------------------------------------------- Next
Next ==
    \/ start
    \/ activate_plugins
    \/ open_pipeline
    \/ close_pipeline
    \/ deactivate_plugins
    \/ start_return
    \/ \E i \in Items : on_message_intake(i)
    \/ \E i \in Items : on_message_detected(i)
    \/ \E i \in Items : on_message_resolve(i)
    \/ \E i \in Items : on_message_filter(i)
    \/ \E i \in Items : on_message_notify(i)
    \/ \E i \in Items : on_message_processed(i)
    \/ \E i \in Items : on_message_mark_seen(i)
    \/ \E i \in Items : on_command_intake(i)
    \/ \E i \in Items : on_command_detected(i)
    \/ \E i \in Items : on_command_resolve(i)
    \/ \E i \in Items : on_command_handler(i)
    \/ \E i \in Items : on_command_else(i)
    \/ \E i \in Items : on_command_processed(i)
    \/ \E i \in Items : on_command_mark_seen(i)
    \/ \E i \in Items : Return(i)

Spec == Init /\ [][Next]_vars

\* ================================================================= claims
RECURSIVE SumOver(_, _)
SumOver(f, S) ==
    IF S = {} THEN 0
    ELSE LET x == CHOOSE y \in S : TRUE IN f[x] + SumOver(f, S \ {x})

Total(f) == SumOver(f, DOMAIN f)

\* The listener sets and the resolver entries a dispatch of kind runs on.
DetectedOf(kind) == IF kind = "msg" THEN mdl ELSE cdl
ProcessedOf(kind) == IF kind = "msg" THEN mpl ELSE cpl

NoCalls(d) ==
    Total(d.nDet) = 0 /\ Total(d.nFil) = 0 /\ Total(d.nHan) = 0 /\ Total(d.nPro) = 0

\* C1: an item without the chat-version header is deleted by the intake
\* guard of on_message and of on_command; no detected-listener, filter,
\* handler or processed-listener is called for it and it is never marked
\* seen.
C1_IntakeGuard ==
    \A i \in Items :
        (disp[i].pc # "idle" /\ ~disp[i].meta) =>
            /\ disp[i].pc = "done"
            /\ disp[i].deleted = 1
            /\ disp[i].seen = 0
            /\ NoCalls(disp[i])

C1_Witness ==
    \E i \in Items :
        /\ disp[i].pc = "done" /\ ~disp[i].meta /\ disp[i].kind = "cmd"
        /\ disp[i].deleted = 1
        /\ cdl # {} /\ cpl # {} /\ commands # <<>>

\* C2: once a detected-listener has returned None the item is deleted, the
\* handler is over (no further detected-listener, no filter, no handler and
\* no processed-listener is called) and the item is not marked seen.
C2_Rejected(i) ==
    disp[i].rejected =>
        /\ disp[i].pc = "done"
        /\ disp[i].deleted = 1
        /\ disp[i].seen = 0
        /\ Total(disp[i].nFil) = 0
        /\ Total(disp[i].nHan) = 0
        /\ Total(disp[i].nPro) = 0

C2_NothingAfter(i) ==
    disp[i].rejected => (disp'[i] = disp[i] \/ disp'[i] = Idle)

C2_ListenerRejection ==
    /\ [](\A i \in Items : C2_Rejected(i))
    /\ [][\A i \in Items : C2_NothingAfter(i)]_vars

C2_Witness ==
    \E i \in Items :
        /\ disp[i].rejected /\ disp[i].kind = "msg"
        /\ Cardinality(mdl) = 2 /\ Total(disp[i].nDet) = 1
        /\ filters # <<>> /\ mpl # {}

\* C3 (as claimed): when the matching handler raises, the command still
\* counts as processed, and every processed-command-listener is called
\* with processed = True.
C3_RaisingHandlerProcessed ==
    \A i \in Items :
        (disp[i].kind = "cmd" /\ disp[i].hanRaised # {}
            /\ disp[i].pc \in {"notify", "done"}) =>
            /\ disp[i].processed = Some(TRUE)
            /\ disp[i].proArgs \subseteq {TRUE}

C5_FiltersFanOut ==
    \A i \in Items :
        (disp[i].kind = "msg" /\ disp[i].pc \in {"notify", "done"}
            /\ disp[i].meta /\ ~disp[i].rejected) =>
            /\ \A f \in Plugins :
                disp[i].nFil[f] = IF InSeq(f, filters) THEN 1 ELSE 0
            /\ disp[i].processed = Some(disp[i].filTrue # {})
            /\ disp[i].proArgs \subseteq {disp[i].filTrue # {}}

\* The first filter returned True, the second one raised.
C5_Witness ==
    \E i \in Items :
        /\ disp[i].kind = "msg" /\ disp[i].pc = "done"
        /\ Len(filters) = 2
        /\ disp[i].filTrue = {filters[1]}
        /\ disp[i].filRaised = {filters[2]}
        /\ disp[i].proArgs = {TRUE}

\* C6: an exception of a detected-listener changes nothing: the call leaves
\* the text as it was, deletes nothing and does not end the loop; every
\* registered detected-listener is called exactly once before resolution,
\* and a dispatch in which listeners raised and none returned None ends
\* with the item marked seen, not deleted.
C6_RaisingStep(i) ==
    ~(disp'[i].detRaised \subseteq disp[i].detRaised) =>
        /\ disp'[i].text = disp[i].text
        /\ disp'[i].deleted = disp[i].deleted
        /\ disp'[i].pc = "detect"

C6_AllDetectedCalled(i) ==
    (disp[i].pc \in {"resolve", "notify"}
        \/ (disp[i].pc = "done" /\ disp[i].meta /\ ~disp[i].rejected)) =>
        /\ \A l \in Plugins :
            disp[i].nDet[l] = IF l \in DetectedOf(disp[i].kind) THEN 1 ELSE 0
        /\ disp[i].deleted = 0
        /\ disp[i].pc = "done" => disp[i].seen = 1

C6_ListenerFaultIsolated ==
    /\ [](\A i \in Items : C6_AllDetectedCalled(i))
    /\ [][\A i \in Items : C6_RaisingStep(i)]_vars

\* Both detected-command-listeners raised and the scan of the commands has
\* begun.
C6_Witness ==
    \E i \in Items :
        /\ disp[i].kind = "cmd" /\ disp[i].pc = "resolve"
        /\ Cardinality(cdl) = 2
        /\ disp[i].detRaised = cdl

\* C7: a dispatch that has run to its end has performed exactly one of
\* delete and mark-seen on the item, once; it is mark-seen exactly when
\* the item passed the intake guard and no detected-listener returned
\* None, whichever callbacks raised.  Before the end neither is done twice
\* nor both.
C7_DeleteXorSeen ==
    \A i \in Items :
        /\ disp[i].deleted + disp[i].seen <= 1
        /\ disp[i].pc = "done" =>
            /\ disp[i].deleted + disp[i].seen = 1
            /\ disp[i].seen = 1 <=> (disp[i].meta /\ ~disp[i].rejected)

\* A command whose detected-listener, handler and processed-listener all
\* raised is marked seen.
C7_Witness ==
    \E i \in Items :
        /\ disp[i].pc = "done" /\ disp[i].kind = "cmd"
        /\ disp[i].seen = 1 /\ disp[i].deleted = 0
        /\ disp[i].detRaised # {} /\ disp[i].hanRaised # {}
        /\ disp[i].proRaised # {}

\* C8: for an item that passed the intake guard and was not rejected, every
\* registered processed-listener of the pipeline is called exactly once,
\* all with the value processed has after resolution, also when
\* processed-listeners raise; the item is then marked seen.
C8_ProcessedListeners ==
    \A i \in Items :
        (disp[i].pc = "done" /\ disp[i].meta /\ ~disp[i].rejected) =>
            /\ \A l \in Plugins :
                disp[i].nPro[l] = IF l \in ProcessedOf(disp[i].kind) THEN 1 ELSE 0
            /\ disp[i].proArgs =
                IF ProcessedOf(disp[i].kind) = {} THEN {} ELSE {Val(disp[i].processed)}
            /\ disp[i].seen = 1

\* Two processed-message-listeners, both called, one of them raised.
C8_Witness ==
    \E i \in Items :
        /\ disp[i].pc = "done" /\ disp[i].kind = "msg"
        /\ Cardinality(mpl) = 2
        /\ Cardinality(disp[i].proRaised) = 1
        /\ Total(disp[i].nPro) = 2
        /\ disp[i].seen = 1

\* C9: deactivate_plugins calls the deactivate hook of every loaded plugin
\* exactly once, whichever hooks raise: a raising hook does not stop the
\* loop and its exception does not leave deactivate_plugins.
C9_DeactivateAll ==
    /\ deactRaised # {} => hpc \in {"deactivating", "stopped"}
    /\ hpc = "deactivating" =>
        \A p \in Plugins : nDeact[p] = IF p < k THEN 1 ELSE 0
    /\ hpc = "stopped" => \A p \in Plugins : nDeact[p] = 1

\* The first plugin's hook raised, and the loop has gone through all
\* plugins.
C9_Witness ==
    /\ hpc = "stopped"
    /\ 1 \in deactRaised
    /\ \A p \in Plugins : nDeact[p] = 1

\* The registry holds nothing of plugin p.
Absent(p) ==
    /\ p \notin mdl /\ p \notin mpl /\ p \notin cdl /\ p \notin cpl
    /\ ~InSeq(CmdOf(p), commands)
    /\ ~InSeq(p, filters)

\* C10 (as claimed): once the deactivate hook of a plugin has run, none of
\* the handlers, filters and listeners the plugin registered is left in the
\* registry.
C10_DeactivateRemovesAll ==
    \A p \in Plugins :
        (nDeact[p] = 1 /\ p \notin deactRaised) => Absent(p)

\* ---------------------------------------------------- lifecycle claims
\* The place of event e in hlog, 0 when it has not happened.
Pos(e) == IF InSeq(e, hlog) THEN CHOOSE n \in 1..Len(hlog) : hlog[n] = e ELSE 0

Happened(e) == InSeq(e, hlog)

\* The registry holds everything plugin p registered in its activate hook.
Present(p) ==
    /\ "detected" \in registered[p] => (p \in mdl /\ p \in cdl)
    /\ "processed" \in registered[p] => (p \in mpl /\ p \in cpl)
    /\ "resolver" \in registered[p] => (InSeq(CmdOf(p), commands) /\ InSeq(p, filters))

\* C11: an exception of a plugin's activate hook is not caught: it leaves
\* activate_plugins and start(), the inbound pipeline is never opened in
\* that run (no item is dispatched) and no plugin later in load order is
\* activated.
C11_ActivationFaultPropagates ==
    \A p \in Plugins :
        p \in actRaised =>
            /\ hpc = "crashed"
            /\ escaped
            /\ ~Happened(<<"open", 0>>)
            /\ \A i \in Items : disp[i].pc = "idle"
            /\ \A q \in Plugins : q > p => nAct[q] = 0

\* The first plugin's hook raised; the second plugin was never activated.
C11_Witness ==
    /\ actRaised = {1}
    /\ hpc = "crashed"
    /\ nAct[1] = 1 /\ nAct[2] = 0

\* C12: in a run of start() in which no activate hook raises, every
\* plugin's activate hook is called exactly once and all of them before
\* the pipeline is opened; items are dispatched only while the pipeline is
\* open; every plugin's deactivate hook is called exactly once and only
\* after the pipeline has stopped, also when it stopped by an exception.
C12_LifecycleOrder ==
    /\ \A p \in Plugins : nAct[p] <= 1 /\ nDeact[p] <= 1
    /\ \A i \in Items : disp[i].pc # "idle" => hpc = "running"
    /\ hpc = "running" =>
        /\ Happened(<<"open", 0>>) /\ ~Happened(<<"close", 0>>)
        /\ \A p \in Plugins : nAct[p] = 1 /\ nDeact[p] = 0
    /\ Happened(<<"open", 0>>) =>
        \A p \in Plugins :
            /\ Happened(<<"activate", p>>)
            /\ Pos(<<"activate", p>>) < Pos(<<"open", 0>>)
    /\ \A p \in Plugins :
        Happened(<<"deactivate", p>>) =>
            /\ Happened(<<"close", 0>>)
            /\ Pos(<<"open", 0>>) < Pos(<<"close", 0>>)
            /\ Pos(<<"close", 0>>) < Pos(<<"deactivate", p>>)
    /\ (hpc = "stopped" /\ actRaised = {}) =>
        \A p \in Plugins : nAct[p] = 1 /\ nDeact[p] = 1

\* The pipeline stopped by an exception, start() is over and every plugin
\* was deactivated.
C12_Witness ==
    /\ hpc = "stopped" /\ escaped /\ actRaised = {}
    /\ Happened(<<"close", 0>>)
    /\ \A p \in Plugins : nAct[p] = 1 /\ nDeact[p] = 1

\* C13: plugins are activated in load order and deactivated in the same
\* order, not reversed: for plugins p before q, activate(p) comes before
\* activate(q) and deactivate(p) before deactivate(q), also when
\* deactivate(p) raised.
C13_SameOrder ==
    \A p, q \in Plugins :
        p < q =>
            /\ Happened(<<"activate", q>>) =>
                /\ Happened(<<"activate", p>>)
                /\ Pos(<<"activate", p>>) < Pos(<<"activate", q>>)
            /\ Happened(<<"deactivate", q>>) =>
                /\ Happened(<<"deactivate", p>>)
                /\ Pos(<<"deactivate", p>>) < Pos(<<"deactivate", q>>)

\* The first plugin's deactivate hook raised, the second plugin was
\* deactivated after it.
C13_Witness ==
    /\ 1 \in deactRaised
    /\ Happened(<<"deactivate", 1>>) /\ Happened(<<"deactivate", 2>>)
    /\ Pos(<<"activate", 1>>) < Pos(<<"activate", 2>>)
    /\ Pos(<<"deactivate", 1>>) < Pos(<<"deactivate", 2>>)

\* C20: when the activate hook of a plugin raises during start(), no
\* deactivate hook is called in that run, and what the plugins activated so
\* far registered stays in the registry.
C20_NoDeactivateAfterActivationFault ==
    actRaised # {} =>
        /\ hpc = "crashed"
        /\ \A p \in Plugins :
            /\ nDeact[p] = 0
            /\ ~Happened(<<"deactivate", p>>)
            /\ nAct[p] = 1 => Present(p)

\* The second plugin's hook raised; the first plugin registered everything
\* it has and it is all still there.
C20_Witness ==
    /\ actRaised = {2}
    /\ registered[1] = {"detected", "processed", "resolver"}
    /\ Present(1) /\ 1 \in mdl /\ InSeq(CmdOf(1), commands)
    /\ \A p \in Plugins : nDeact[p] = 0

\* ------------------------------------------------- direct registry calls
\* The add_on_* / remove_on_* methods called in any order with any
\* listener, on the bot as __init__ left it.
Listeners4 == <<mdl, mpl, cdl, cpl>>

\* Mutant: set.remove in place of set.discard, KeyError on an absent
\* listener.
RemoveRaises_KeyError(S, listener) == listener \notin S

\* Lines 137-153: set.discard raises nothing, whether or not the listener
\* is in the set.
RemoveRaises(S, listener) == FALSE

Called(op, cat, listener, raised) ==
    /\ lastOp' = [op |-> op, cat |-> cat, listener |-> listener,
                  before |-> Listeners4, raised |-> raised]
    /\ UNCHANGED <<hpc, k, commands, filters, registered, nAct, nDeact,
                   deactRaised, escaped, actRaised, hlog, disp>>

call_add_on_msg_detected_listener ==
    \E l \in Plugins :
        /\ mdl' = add_on_msg_detected_listener(mdl, l)
        /\ UNCHANGED <<mpl, cdl, cpl>>
        /\ Called("add", 1, l, FALSE)

call_add_on_msg_processed_listener ==
    \E l \in Plugins :
        /\ mpl' = add_on_msg_processed_listener(mpl, l)
        /\ UNCHANGED <<mdl, cdl, cpl>>
        /\ Called("add", 2, l, FALSE)

call_add_on_cmd_detected_listener ==
    \E l \in Plugins :
        /\ cdl' = add_on_cmd_detected_listener(cdl, l)
        /\ UNCHANGED <<mdl, mpl, cpl>>
        /\ Called("add", 3, l, FALSE)

call_add_on_cmd_processed_listener ==
    \E l \in Plugins :
        /\ cpl' = add_on_cmd_processed_listener(cpl, l)
        /\ UNCHANGED <<mdl, mpl, cdl>>
        /\ Called("add", 4, l, FALSE)

call_remove_on_msg_detected_listener ==
    \E l \in Plugins :
        /\ mdl' = IF RemoveRaises(mdl, l) THEN mdl
                  ELSE remove_on_msg_detected_listener(mdl, l)
        /\ UNCHANGED <<mpl, cdl, cpl>>
        /\ Called("remove", 1, l, RemoveRaises(mdl, l))

call_remove_on_msg_processed_listener ==
    \E l \in Plugins :
        /\ mpl' = IF RemoveRaises(mpl, l) THEN mpl
                  ELSE remove_on_msg_processed_listener(mpl, l)
        /\ UNCHANGED <<mdl, cdl, cpl>>
        /\ Called("remove", 2, l, RemoveRaises(mpl, l))

call_remove_on_cmd_detected_listener ==
    \E l \in Plugins :
        /\ cdl' = IF RemoveRaises(cdl, l) THEN cdl
                  ELSE remove_on_cmd_detected_listener(cdl, l)
        /\ UNCHANGED <<mdl, mpl, cpl>>
        /\ Called("remove", 3, l, RemoveRaises(cdl, l))

call_remove_on_cmd_processed_listener ==
    \E l \in Plugins :
        /\ cpl' = IF RemoveRaises(cpl, l) THEN cpl
                  ELSE remove_on_cmd_processed_listener(cpl, l)
        /\ UNCHANGED <<mdl, mpl, cdl>>
        /\ Called("remove", 4, l, RemoveRaises(cpl, l))

NextRegistry ==
    \/ call_add_on_msg_detected_listener
    \/ call_add_on_msg_processed_listener
    \/ call_add_on_cmd_detected_listener
    \/ call_add_on_cmd_processed_listener
    \/ call_remove_on_msg_detected_listener
    \/ call_remove_on_msg_processed_listener
    \/ call_remove_on_cmd_detected_listener
    \/ call_remove_on_cmd_processed_listener

SpecRegistry == Init /\ [][NextRegistry]_vars

\* C14: in each of the four listener categories, after any sequence of add
\* and remove calls: adding a listener that is registered leaves the whole
\* registry as it was (the listener is in its set once) and one remove then
\* makes it absent; removing a listener that is not registered leaves the
\* whole registry as it was and raises nothing.  Every add leaves the
\* listener registered, every remove leaves it absent, and a call touches
\* no other category.
C14_IdempotentRegistration ==
    lastOp.op # "none" =>
        LET c == lastOp.cat
            l == lastOp.listener
            was == lastOp.before
        IN  /\ ~lastOp.raised
            /\ \A o \in 1..4 : o # c => Listeners4[o] = was[o]
            /\ lastOp.op = "add" =>
                /\ Listeners4[c] = was[c] \cup {l}
                /\ l \in was[c] => Listeners4 = was
                /\ Cardinality(Listeners4[c]) <= Cardinality(was[c]) + 1
            /\ lastOp.op = "remove" =>
                /\ Listeners4[c] = was[c] \ {l}
                /\ l \notin Listeners4[c]
                /\ l \notin was[c] => Listeners4 = was

\* A listener that is not registered was removed from a set that holds
\* another one.
C14_Witness ==
    /\ lastOp.op = "remove"
    /\ lastOp.cat = 4
    /\ lastOp.listener \notin lastOp.before[4]
    /\ lastOp.before[4] # {}
    /\ cpl = lastOp.before[4]

\* ------------------------------------------------- text seen by callbacks
\* The text begins with the marker "/z" as a token of its own.
Marked(t) ==
    /\ Len(t) >= 2 /\ t[1] = "/" /\ t[2] = "z"
    /\ (Len(t) = 2 \/ t[3] = SP)

\* The text a command dispatch goes on with after the marker inspection.
AfterMarker(t) == IF Marked(t) THEN Strip(SubSeq(t, 3, Len(t))) ELSE t

\* No callback that takes the text has been called in dispatch d.
NoTextCall(d) == Total(d.nDet) = 0 /\ Total(d.nFil) = 0 /\ Total(d.nHan) = 0

\* Exactly one callback that takes the text has been called in dispatch d.
FirstTextCall(d) == Total(d.nDet) + Total(d.nFil) + Total(d.nHan) = 1

C15_Tagged(i) ==
    LET d == disp[i] IN
    (d.kind = "cmd" /\ d.text0 # None) =>
        LET t0 == Val(d.text0) IN
        /\ d.user_agent = IF Marked(t0) THEN "zhv" ELSE "unknow"
        /\ (d.pc = "detect" /\ NoTextCall(d)) => d.text = Some(AfterMarker(t0))
        /\ FirstTextCall(d) => d.argIn = Some(AfterMarker(t0))
        /\ Total(d.nDet) = 0 =>
               d.hanArgs \subseteq
                   ({get_args(c, AfterMarker(t0)) : c \in CmdNames} \ {None})

C15_Scenario(i) ==
    LET d == disp[i] IN
    (/\ d.kind = "cmd" /\ d.text0 = Some(TxtZA)
     /\ d.pc \in {"notify", "done"}
     /\ Total(d.nDet) = 0
     /\ InSeq(TxtA, commands)
     /\ d.hanRaised = {}) =>
        /\ d.user_agent = "zhv"
        /\ d.nHan[TxtA] = 1
        /\ d.hanArgs = {Some(<<>>)}
        /\ d.processed = Some(TRUE)

\* C15: a command that passes the intake guard has its origin tag set
\* before any detected-command-listener is called: "zhv" exactly when the
\* text begins with the marker "/z", and then the listeners and the handler
\* matching see the text without the marker; "unknow" otherwise, with the
\* text unchanged. Text "/z /a" with a handler "/a" that returns sets the
\* tag "zhv", calls the handler once with the empty argument text and
\* gives processed = True.
C15_OriginTag == \A i \in Items : C15_Tagged(i) /\ C15_Scenario(i)

C15_Witness ==
    \E i \in Items :
        /\ disp[i].kind = "cmd" /\ disp[i].pc = "done"
        /\ disp[i].text0 = Some(TxtZA)
        /\ disp[i].user_agent = "zhv"
        /\ disp[i].nHan[TxtA] = 1
        /\ disp[i].hanArgs = {Some(<<>>)}
        /\ disp[i].processed = Some(TRUE)
        /\ disp[i].seen = 1

\* ------------------------------------------------------ handler matching
\* Name c is a prefix of text t that is followed by whitespace or by the
\* end of the text.
TokenMatch(c, t) == IsPrefix(c, t) /\ (Len(t) = Len(c) \/ t[Len(c) + 1] = SP)

\* The positions of self.commands whose name matches text t that way.
Matching(t) == {n \in 1..Len(commands) : TokenMatch(commands[n], t)}

FirstMatching(t) == CHOOSE n \in Matching(t) : \A m \in Matching(t) : n <= m

\* The command loop of dispatch i is through.
Scanned(i) ==
    /\ disp[i].kind = "cmd" /\ disp[i].pc \in {"notify", "done"}
    /\ disp[i].text # None

C16_FirstMatch(i) ==
    LET d == disp[i]
        t == Val(d.text) IN
    Scanned(i) =>
        IF Matching(t) = {}
        THEN Total(d.nHan) = 0 /\ d.processed = Some(FALSE)
        ELSE LET c == commands[FirstMatching(t)] IN
             /\ d.nHan[c] = 1
             /\ \A o \in CmdNames \ {c} : d.nHan[o] = 0
             /\ d.hanArgs = {Some(Strip(SubSeq(t, Len(c) + 1, Len(t))))}

C16_Example(i) ==
    (/\ Scanned(i)
     /\ disp[i].text = Some(TxtABX)
     /\ NumPlugins >= 2
     /\ Len(commands) >= 2 /\ commands[1] = TxtA /\ commands[2] = CmdOf(2)) =>
        /\ disp[i].nHan[TxtA] = 0
        /\ disp[i].nHan[CmdOf(2)] = 1
        /\ disp[i].hanArgs = {Some(<<"x">>)}

\* C16: in the command pipeline the handler that is called is the first
\* one, in registration order, whose name is a prefix of the text followed
\* by whitespace or by the end of the text, and processed = False when no
\* name matches; a name never matches inside a longer token: with "/a"
\* registered before "/ab" and the text "/ab x", "/a" is not called and
\* "/ab" is, with the argument text "x".
C16_FirstMatchingHandler == \A i \in Items : C16_FirstMatch(i) /\ C16_Example(i)

C16_Witness ==
    \E i \in Items :
        /\ Scanned(i) /\ disp[i].pc = "done"
        /\ disp[i].text = Some(TxtABX)
        /\ Len(commands) >= 2 /\ commands[1] = TxtA /\ commands[2] = CmdOf(2)
        /\ disp[i].nHan[TxtA] = 0
        /\ disp[i].nHan[CmdOf(2)] = 1
        /\ disp[i].hanArgs = {Some(<<"x">>)}

\* --------------------------------------------------- text transformation
\* The text dispatch d started with: the item's text or the text given by
\* the caller, for a command after the marker inspection.
StartText(d) == IF d.kind = "cmd" THEN AfterMarker(Val(d.text0)) ELSE Val(d.text0)

\* The text returned by the latest detected-listener that returned
\* normally, the start text when none has.
CurrentText(d) == IF d.lastRet # None THEN Val(d.lastRet) ELSE StartText(d)

\* Dispatch i is past the intake guard and has not been rejected.
InPipeline(i) == disp[i].text0 # None /\ ~disp[i].rejected

\* This step calls a detected-listener, a filter or a handler in dispatch i.
TextCallStep(i) ==
    /\ disp[i].pc \in {"detect", "resolve"}
    /\ \/ disp'[i].nDet # disp[i].nDet
       \/ disp'[i].nFil # disp[i].nFil
       \/ disp'[i].nHan # disp[i].nHan

\* This step is a command scan step that finds a matching name.
MatchStep(i) ==
    /\ disp[i].kind = "cmd" /\ disp[i].pc = "resolve"
    /\ disp'[i].nHan # disp[i].nHan

C18_Passed(i) ==
    /\ TextCallStep(i) => disp'[i].argIn = Some(CurrentText(disp[i]))
    /\ MatchStep(i) =>
           TokenMatch(commands[disp[i].idx], CurrentText(disp[i]))

C18_Kept(i) == InPipeline(i) => disp[i].text = Some(CurrentText(disp[i]))

C18_Example(i) ==
    LET d == disp[i] IN
    (/\ d.kind = "msg" /\ d.pc = "done" /\ InPipeline(i)
     /\ d.text0 = Some(TxtHi)
     /\ Cardinality(mdl) = 1 /\ d.detRaised = {}
     /\ filters = <<>>) =>
        /\ \A l \in mdl : d.nDet[l] = 1
        /\ d.text = d.lastRet
        /\ Total(d.nFil) = 0
        /\ d.processed = Some(FALSE)
        /\ \A l \in mpl : d.nPro[l] = 1
        /\ d.proArgs \subseteq {FALSE}
        /\ d.seen = 1 /\ d.deleted = 0

\* C18: within one dispatch the detected-listeners transform the text one
\* after the other: each of them is given the text returned by the latest
\* earlier listener that returned normally (the item's text, or the text
\* given by the caller, when none did), and the filters and the handler
\* matching are given the text left by the last listener that returned
\* normally. With one listener that replaces "hi" and no filters, no
\* filter runs, the processed-listeners are given False, and the item is
\* marked seen and not deleted.
C18_TextThreading ==
    /\ [](\A i \in Items : C18_Kept(i) /\ C18_Example(i))
    /\ [][\A i \in Items : C18_Passed(i)]_vars

C18_Witness ==
    \E i \in Items :
        /\ disp[i].kind = "msg" /\ disp[i].pc = "done" /\ InPipeline(i)
        /\ disp[i].text0 = Some(TxtHi)
        /\ Cardinality(mdl) = 1 /\ disp[i].detRaised = {}
        /\ filters = <<>> /\ mpl # {}
        /\ disp[i].lastRet = Some(TxtA)
        /\ disp[i].text = Some(TxtA)
        /\ disp[i].proArgs = {FALSE}
        /\ disp[i].seen = 1 /\ disp[i].deleted = 0

\* ---------------------------------------------------------- stage order
\* The stages of a handler in the order of its code.
Rank(pc) ==
    CASE pc = "idle" -> 0
      [] pc = "detect" -> 1
      [] pc = "resolve" -> 2
      [] pc = "notify" -> 3
      [] pc = "done" -> 4

\* The calls made so far in dispatch d by stage.
DetCalls(d) == Total(d.nDet)
ResCalls(d) == Total(d.nFil) + Total(d.nHan)
ProCalls(d) == Total(d.nPro)

C19_Step(i) ==
    LET d == disp[i]
        e == disp'[i] IN
    /\ d.pc \notin {"idle", "done"} => Rank(e.pc) >= Rank(d.pc)
    /\ e.pc # "idle" =>
        /\ DetCalls(e) > DetCalls(d) =>
               ResCalls(d) = 0 /\ ProCalls(d) = 0 /\ d.seen = 0
        /\ ResCalls(e) > ResCalls(d) =>
               ProCalls(d) = 0 /\ d.seen = 0
        /\ ProCalls(e) > ProCalls(d) => d.seen = 0
        /\ e.seen > d.seen =>
               /\ \A l \in ProcessedOf(d.kind) : d.nPro[l] >= 1
               /\ e.pc = "done"

C19_Stage(i) ==
    LET d == disp[i] IN
    /\ d.pc = "detect" => ResCalls(d) = 0 /\ ProCalls(d) = 0 /\ d.seen = 0
    /\ d.pc = "resolve" => ProCalls(d) = 0 /\ d.seen = 0
    /\ d.pc = "notify" => d.seen = 0
    /\ d.seen = 1 => \A l \in ProcessedOf(d.kind) : d.nPro[l] >= 1

\* C19: within a dispatch the stages are strictly ordered: every call of
\* a detected-listener comes before every call of a filter or handler,
\* every call of a filter or handler comes before every call of a
\* processed-listener, the item is marked seen only after all
\* processed-listeners have been called, and no stage is entered again
\* once a later one has begun.
C19_StageOrder ==
    /\ [](\A i \in Items : C19_Stage(i))
    /\ [][\A i \in Items : C19_Step(i)]_vars

C19_Witness ==
    \E i \in Items :
        /\ disp[i].pc = "done" /\ disp[i].seen = 1
        /\ DetCalls(disp[i]) >= 2
        /\ ResCalls(disp[i]) >= 1
        /\ ProCalls(disp[i]) >= 2

\* ------------------------------------------------------ traced dispatch
\* The handlers step by step with the text given to each callback recorded,
\* on a bot that start() has brought to the open pipeline.

\* The registry after start() has activated every plugin, plugin p having
\* registered shape reg[p], and has opened the pipeline.
Registering(tag, reg) == {p \in Plugins : tag \in reg[p]}

RECURSIVE CommandsUpTo(_, _)
CommandsUpTo(n, reg) ==
    IF n = 0 THEN <<>>
    ELSE IF "resolver" \in reg[n]
         THEN add_commands(CommandsUpTo(n - 1, reg), CmdOf(n))
         ELSE CommandsUpTo(n - 1, reg)

RECURSIVE FiltersUpTo(_, _)
FiltersUpTo(n, reg) ==
    IF n = 0 THEN <<>>
    ELSE IF "resolver" \in reg[n]
         THEN add_filters(FiltersUpTo(n - 1, reg), n)
         ELSE FiltersUpTo(n - 1, reg)

RECURSIVE ActivatedUpTo(_)
ActivatedUpTo(n) ==
    IF n = 0 THEN <<>> ELSE Append(ActivatedUpTo(n - 1), <<"activate", n>>)

\* The shapes the plugins have registered when the dispatches start.
RunningShapes ==
    {{}, {"resolver"}, {"detected", "processed"},
     {"detected", "processed", "resolver"}}

InitRunning ==
    /\ hpc = "running"
    /\ k = NumPlugins + 1
    /\ registered \in [Plugins -> RunningShapes]
    /\ mdl = Registering("detected", registered)
    /\ cdl = Registering("detected", registered)
    /\ mpl = Registering("processed", registered)
    /\ cpl = Registering("processed", registered)
    /\ commands = CommandsUpTo(NumPlugins, registered)
    /\ filters = FiltersUpTo(NumPlugins, registered)
    /\ nAct = [p \in Plugins |-> 1]
    /\ nDeact = Zero(Plugins)
    /\ deactRaised = {}
    /\ escaped = FALSE
    /\ actRaised = {}
    /\ hlog = Append(ActivatedUpTo(NumPlugins), <<"open", 0>>)
    /\ lastOp = NoOp
    /\ disp = [i \in Items |-> Idle]

\* An unmodified set is iterated in the same order every time.
NextListener(S, d) ==
    CHOOSE l \in S \ d.visited : \A m \in S \ d.visited : l <= m

\* Callback call e was given the text t.
Given(e, t) == [e EXCEPT !.argIn = Some(t)]

\* Handler invocation e was called for an item whose text, or the text
\* given by the caller, is t0.
CalledWith(e, t0) == IF e.pc = "detect" THEN [e EXCEPT !.text0 = Some(t0)] ELSE e

\* The next step of handler invocation d, lines 170-198 and 218-250; the
\* callback it calls, if any, does det (a detected-listener), fil (a
\* filter), raises or returns as han says (a handler) or as pro says (a
\* processed-listener).
StepWith(d, det, fil, han, pro) ==
    CASE d.pc = "detect" ->
            IF LoopDone(DetectedOf(d.kind), d)
            THEN IF d.kind = "msg"
                 THEN [d EXCEPT !.pc = "resolve", !.processed = Some(FALSE),
                                !.idx = 1, !.visited = {}]
                 ELSE [d EXCEPT !.pc = "resolve", !.idx = 1, !.visited = {}]
            ELSE LET l == NextListener(DetectedOf(d.kind), d)
                     t == Val(PassedText(d)) IN
                 Given(DetectedCall(d, l, det), t)
      [] d.pc = "resolve" /\ d.kind = "msg" ->
            IF d.idx <= Len(filters)
            THEN LET f == filters[d.idx]
                     t == Val(PassedText(d)) IN
                 Given(FilterCall(d, f, fil), t)
            ELSE [d EXCEPT !.pc = "notify", !.visited = {}]
      [] d.pc = "resolve" /\ d.kind = "cmd" ->
            IF d.idx <= Len(commands)
            THEN LET cmd == commands[d.idx]
                     t == Val(PassedText(d)) IN
                 IF HandlerMatches(cmd, t)
                 THEN Given(HandlerCall(d, cmd, han), t)
                 ELSE [d EXCEPT !.idx = @ + 1]
            ELSE [d EXCEPT !.processed = Some(FALSE), !.pc = "notify",
                           !.visited = {}]
      [] d.pc = "notify" ->
            IF LoopDone(ProcessedOf(d.kind), d)
            THEN MarkSeen(d)
            ELSE LET l == NextListener(ProcessedOf(d.kind), d) IN
                 ProcessedCall(d, l, pro)

\* The host calls on_message or on_command for an item.
traced_receive(i) ==
    /\ CanReceive(i)
    /\ \E meta \in BOOLEAN, msgtext \in Texts,
          text \in {None} \cup {Some(t) : t \in ArgTexts} :
        LET t0 == IF text = None THEN msgtext ELSE Val(text) IN
        \/ Set(i, CalledWith(NewMessage(meta, msgtext, text), t0))
        \/ Set(i, CalledWith(NewCommand(meta, msgtext, text), t0))
    /\ UNCHANGED <<registry, lifecycle>>

\* The handler takes its next step, the callback it calls doing anything a
\* callback can do: a detected-listener in the first loop, a filter or a
\* handler in the second, a processed-listener in the third.
traced_step(i) ==
    /\ \/ /\ disp[i].pc = "detect"
          /\ \E det \in DetectedOutcomes :
                Set(i, StepWith(disp[i], det, Returns(FALSE), FALSE, FALSE))
       \/ /\ disp[i].pc = "resolve" /\ disp[i].kind = "msg"
          /\ \E fil \in {Returns(TRUE), Returns(FALSE), Raise} :
                Set(i, StepWith(disp[i], Raise, fil, FALSE, FALSE))
       \/ /\ disp[i].pc = "resolve" /\ disp[i].kind = "cmd"
          /\ \E raises \in BOOLEAN :
                Set(i, StepWith(disp[i], Raise, Returns(FALSE), raises, FALSE))
       \/ /\ disp[i].pc = "notify"
          /\ \E raises \in BOOLEAN :
                Set(i, StepWith(disp[i], Raise, Returns(FALSE), FALSE, raises))
    /\ UNCHANGED <<registry, lifecycle>>

NextTraced ==
    \/ \E i \in Items : traced_receive(i)
    \/ \E i \in Items : traced_step(i)
    \/ \E i \in Items : Return(i)

SpecTraced == InitRunning /\ [][NextTraced]_vars

\* --------------------------------------------------- concurrent dispatch
\* Two handler invocations for different items run at the same time on one
\* SimpleBot whose registry is not changed meanwhile. The callbacks are
\* functions of their arguments.

\* The detected-listener of plugin 1 replaces "hi" by "/a" and raises on
\* "/z /a"; that of plugin 2 rejects "/ab x"; the others return the text
\* they are given.
DetectedBehaviour(l, text) ==
    CASE l = 1 /\ text = TxtHi -> Returns(Some(TxtA))
      [] l = 1 /\ text = TxtZA -> Raise
      [] l = 2 /\ text = TxtABX -> Returns(None)
      [] OTHER -> Returns(Some(text))

\* The filter of plugin 1 accepts "/a"; that of plugin 2 raises on "hi";
\* the others return False.
FilterBehaviour(f, text) ==
    CASE f = 1 -> Returns(text = TxtA)
      [] f = 2 /\ text = TxtHi -> Raise
      [] OTHER -> Returns(FALSE)

\* A handler raises when it is given arguments.
HandlerRaises(cmd, args) == args # <<>>

\* The processed-listener of plugin 1 raises when processed is True.
ProcessedRaises(l, processed) == l = 1 /\ processed

PluginOfCmd(cmd) == CHOOSE p \in Plugins : CmdOf(p) = cmd

BoolText(b) == IF b THEN <<"T">> ELSE <<"F">>

\* The call of callback who of stage with argument arg is appended to the
\* call sequence of the dispatch.
Logged(e, stage, who, arg) ==
    [e EXCEPT !.log = Append(@, [stage |-> stage, who |-> who, arg |-> arg])]

\* The call made by the step from d to e, if any, is appended to the call
\* sequence.
LogCall(d, e) ==
    IF e.nDet # d.nDet
    THEN Logged(e, "detected",
                CHOOSE l \in Plugins : e.nDet[l] # d.nDet[l], Val(e.argIn))
    ELSE IF e.nFil # d.nFil
    THEN Logged(e, "filter",
                CHOOSE f \in Plugins : e.nFil[f] # d.nFil[f], Val(e.argIn))
    ELSE IF e.nHan # d.nHan
    THEN LET cmd == CHOOSE c \in CmdNames : e.nHan[c] # d.nHan[c] IN
         Logged(e, "handler", PluginOfCmd(cmd), Val(get_args(cmd, Val(e.argIn))))
    ELSE IF e.nPro # d.nPro
    THEN Logged(e, "processed",
                CHOOSE l \in Plugins : e.nPro[l] # d.nPro[l],
                BoolText(Val(d.processed)))
    ELSE e

\* What the callback called in the next step of d does, when that step
\* calls one.
DetectedDoes(d) ==
    IF d.pc = "detect" /\ ~LoopDone(DetectedOf(d.kind), d)
    THEN DetectedBehaviour(NextListener(DetectedOf(d.kind), d), Val(PassedText(d)))
    ELSE Raise

FilterDoes(d) ==
    IF d.pc = "resolve" /\ d.kind = "msg" /\ d.idx <= Len(filters)
    THEN FilterBehaviour(filters[d.idx], Val(PassedText(d)))
    ELSE Raise

HandlerDoes(d) ==
    /\ d.pc = "resolve" /\ d.kind = "cmd" /\ d.idx <= Len(commands)
    /\ HandlerMatches(commands[d.idx], Val(PassedText(d)))
    /\ HandlerRaises(commands[d.idx],
                     Val(get_args(commands[d.idx], Val(PassedText(d)))))

ProcessedDoes(d) ==
    /\ d.pc = "notify" /\ ~LoopDone(ProcessedOf(d.kind), d)
    /\ ProcessedRaises(NextListener(ProcessedOf(d.kind), d), Val(d.processed))

\* The next step of handler invocation d with these callbacks.
StepOf(d) ==
    LogCall(d, StepWith(d, DetectedDoes(d), FilterDoes(d), HandlerDoes(d),
                           ProcessedDoes(d)))

\* Mutant: the text is kept on the bot object, not in a local variable: a
\* handler invocation works on the text the first invocation has.
Frame_SharedText(i) ==
    [disp[i] EXCEPT !.text = IF @ # None /\ disp[1].text # None
                             THEN disp[1].text ELSE @]

\* The local variables handler invocation i works on: text, processed and
\* the loop positions are locals of on_message / on_command, the origin
\* tag is set on the item itself.
Frame(i) == disp[i]

\* The host calls on_message or on_command for an item while another
\* handler invocation may be running.
thread_receive(i) ==
    /\ hpc = "running"
    /\ disp[i].pc = "idle"
    /\ \E meta \in BOOLEAN, msgtext \in Texts,
          text \in {None} \cup {Some(t) : t \in ArgTexts} :
        LET t0 == IF text = None THEN msgtext ELSE Val(text) IN
        \/ Set(i, CalledWith(NewMessage(meta, msgtext, text), t0))
        \/ Set(i, CalledWith(NewCommand(meta, msgtext, text), t0))
    /\ UNCHANGED <<registry, lifecycle>>

\* Handler invocation i takes its next step.
thread_step(i) ==
    /\ disp[i].pc \in {"detect", "resolve", "notify"}
    /\ Set(i, StepOf(Frame(i)))
    /\ UNCHANGED <<registry, lifecycle>>

NextConc ==
    \/ \E i \in Items : thread_receive(i)
    \/ \E i \in Items : thread_step(i)
    \/ \E i \in Items : Return(i)

SpecConc == InitRunning /\ [][NextConc]_vars

\* Handler invocation d run to its end with no other invocation running.
RECURSIVE Run(_)
Run(d) == IF d.pc = "done" THEN d ELSE Run(StepOf(d))

\* The item of dispatch d as it was handed to the handler.
Alone(d) ==
    LET msgtext == IF d.text0 = None THEN TxtHi ELSE Val(d.text0) IN
    IF d.kind = "msg"
    THEN Run(CalledWith(NewMessage(d.meta, msgtext, None), msgtext))
    ELSE Run(CalledWith(NewCommand(d.meta, msgtext, None), msgtext))

\* What the claim compares: the calls with their arguments in order, the
\* processed value, the origin tag, and the delete / mark-seen outcome.
Outcome(d) ==
    [log |-> d.log, processed |-> d.processed, user_agent |-> d.user_agent,
     deleted |-> d.deleted, seen |-> d.seen, text |-> d.text]

\* C17: two dispatches of different items that run concurrently on one
\* registry that is not changed meanwhile do not interfere: in every
\* interleaving of their steps each item gets the same sequence of calls
\* with the same texts, the same processed value, the same origin tag and
\* the same delete / mark-seen outcome as when it is dispatched alone.
C17_NoInterference ==
    \A i \in Items :
        disp[i].pc # "idle" =>
            /\ Outcome(Run(disp[i])) = Outcome(Alone(disp[i]))
            /\ disp[i].pc = "done" => Outcome(disp[i]) = Outcome(Alone(disp[i]))

C17_Witness ==
    /\ disp[1].pc = "done" /\ disp[2].pc = "notify"
    /\ disp[1].kind = "msg" /\ disp[2].kind = "cmd"
    /\ disp[1].text0 = Some(TxtHi) /\ disp[1].text = Some(TxtA)
    /\ disp[2].text0 = Some(TxtZA) /\ disp[2].user_agent = "zhv"
    /\ Len(disp[1].log) >= 4 /\ Len(disp[2].log) >= 3
    /\ disp[1].processed = Some(TRUE) /\ disp[2].processed = Some(TRUE)
    /\ Outcome(disp[1]) = Outcome(Alone(disp[1]))

====
